---- MODULE Spec2Model ----
(***************************************************************************)
(* Model of the Luckin Coffee multi-platform analytics pipeline            *)
(* (improved_luckin_analytics.py): the three platform normalizers          *)
(* process_doordash_data / process_uber_data / process_grubhub_data, the   *)
(* concatenation in main() and the month-over-month growth computation.    *)
(*                                                                         *)
(* Column headers that are Chinese in the source are written here as an    *)
(* ASCII alias prefixed "zh:" (the tools read ASCII strings only):         *)
(*   DoorDash  zh:timestamp_local_date   = 时间戳本地日期                  *)
(*             zh:net_total              = 净总计                          *)
(*             zh:subtotal               = 小计                            *)
(*             zh:tax_subtotal           = 转交给商家的税款小计            *)
(*             zh:staff_tips             = 员工小费                        *)
(*             zh:commission             = 佣金                            *)
(*             zh:marketing_fee          = 营销费 |（包括任何适用税金）    *)
(*             zh:final_order_status     = 最终订单状态                    *)
(*             zh:timestamp_local_time   = 时间戳为本地时间                *)
(*   Uber      zh:order_date             = 订单日期                        *)
(*             zh:total_revenue          = 收入总额                        *)
(*             zh:order_status           = 订单状态                        *)
(*             zh:order_accept_time      = 订单接受时间                    *)
(*             zh:sales_excl_tax         = 销售额（不含税费）              *)
(*             zh:sales_tax              = 销售额税费                      *)
(*             zh:tip                    = 小费                            *)
(*             zh:platform_service_fee   = 平台服务费                      *)
(*             zh:marketing_adjustment   = 营销调整额                      *)
(*             zh:desc:...               = the descriptive (prose) header  *)
(*                                         of the same column              *)
(*   status    zh:completed = 已完成, zh:cancelled = 已取消,               *)
(*             zh:refunded = 退款                                          *)
(*                                                                         *)
(*   order id  zh:doordash_order_id = DoorDash 订单 ID,                    *)
(*             zh:order_id = 订单号                                        *)
(*                                                                         *)
(* Store_Name and Store_ID (lines 84-86, 164-166, 206-208) are assigned    *)
(* without a lookup that can fail and are read by none of the steps        *)
(* modelled here; the records below leave them out.                        *)
(*                                                                         *)
(* Values: a parsed cell is <<>> when it is null (NaT / NaN) and <<v>>     *)
(* otherwise.  A Timestamp is the number of days since 2025-09-01 (a       *)
(* Monday); an amount is a number of cents.                                *)
(***************************************************************************)
EXTENDS Integers, Sequences, FiniteSets, TLC

VARIABLES pc, supplied, raw, returned, all_data, errors, date_range, df,
          completed_df, total_revenue, total_orders, revenue_growth,
          order_growth, rfm_data, reloaded, crash_site, cohort_data,
          monthly_active, order_frequency, churn_by_platform, uncached,
          lookup

vars == <<pc, supplied, raw, returned, all_data, errors, date_range, df,
          completed_df, total_revenue, total_orders, revenue_growth,
          order_growth, rfm_data, reloaded, crash_site, cohort_data,
          monthly_active, order_frequency, churn_by_platform, uncached,
          lookup>>

\* what tab 7 (lines 1114-1245) computes
tab7 == <<cohort_data, monthly_active, order_frequency, churn_by_platform>>

-----------------------------------------------------------------------------
(* Bounds of the model *)

\* rows of an uploaded table when a single platform is uploaded
MaxRows == 2

\* rows of each uploaded table when all three platforms are uploaded
MaxSessionRows == 2

\* rows of each uploaded table of a session that spans two months
MaxLongRows == 2

\* the order counts and the days since the last order the lifecycle stage is
\* computed for: beyond the 'Loyal' count of 5 and the 'Churned' age of 60
MaxOrderCount == 7
MaxDays == 62

-----------------------------------------------------------------------------
(* Generic helpers over sequences *)

Platforms == {"DoorDash", "Uber", "Grubhub"}

NaT == <<>>

NaN == <<>>

notna(v) == v # <<>>

Range(s) == {s[i] : i \in 1..Len(s)}

RECURSIVE FilterSeq(_, _)
\* boolean-mask selection df[mask]: keeps the rows whose mask is TRUE, in order
FilterSeq(s, mask) ==
    IF s = <<>> THEN <<>>
    ELSE IF mask[1] THEN <<s[1]>> \o FilterSeq(Tail(s), Tail(mask))
         ELSE FilterSeq(Tail(s), Tail(mask))

RECURSIVE Concat(_)
\* pd.concat(frames, ignore_index=True) on the rows
Concat(frames) ==
    IF frames = <<>> THEN <<>> ELSE frames[1].rows \o Concat(Tail(frames))

RECURSIVE SumNum(_)
\* Series.sum(): null entries are skipped
SumNum(s) ==
    IF s = <<>> THEN 0
    ELSE (IF notna(s[1]) THEN s[1][1] ELSE 0) + SumNum(Tail(s))

\* position (1-based) of the first column called name, 0 when there is none
ColIndex(columns, name) ==
    IF name \in Range(columns)
    THEN CHOOSE i \in 1..Len(columns) :
            columns[i] = name /\ \A j \in 1..(i - 1) : columns[j] # name
    ELSE 0

\* df[name] for one row
Cell(columns, row, name) == row[ColIndex(columns, name)]

\* df.index.astype(str): the label of the i-th row (1-based) of a RangeIndex
IndexStr(i) ==
    <<"0", "1", "2", "3", "4", "5", "6", "7", "8", "9">>[i]

-----------------------------------------------------------------------------
(* Type coercion: pd.to_datetime / pd.to_numeric with errors='coerce' *)

\* pd.to_datetime(..., errors='coerce') of one cell
to_datetime(cell) ==
    CASE cell = "2025-09-30" -> <<29>>
      [] cell = "2025-10-01" -> <<30>>
      [] cell = "2025-10-02" -> <<31>>
      [] cell = "2025-10-31" -> <<60>>
      [] cell = "2025-11-03" -> <<63>>
      [] OTHER -> NaT

\* pd.to_numeric(..., errors='coerce') of one cell, in cents
to_numeric(cell) ==
    CASE cell = "10.00" -> <<1000>>
      [] cell = "25.50" -> <<2550>>
      [] cell = "-5.00" -> <<-500>>
      [] cell = "-10.00" -> <<-1000>>
      [] cell = "0.00" -> <<0>>
      [] cell = "1.00" -> <<100>>
      [] cell = "2.00" -> <<200>>
      [] OTHER -> NaN

\* pd.to_datetime(time column).dt.hour of one cell
hour_of(cell) ==
    CASE cell = "12:30:00" -> <<12>>
      [] cell = "08:05:00" -> <<8>>
      [] OTHER -> NaN

DayNames == <<"Monday", "Tuesday", "Wednesday", "Thursday", "Friday",
              "Saturday", "Sunday">>

\* Series.dt.day_name(): null for NaT
day_name(date) ==
    IF notna(date) THEN <<DayNames[(date[1] % 7) + 1]>> ELSE NaN

\* Series.dt.to_period('M') as the month number of 2025: null for NaT
to_period_M(date) ==
    IF ~notna(date) THEN NaT
    ELSE IF date[1] < 30 THEN <<9>>
    ELSE IF date[1] < 61 THEN <<10>>
    ELSE <<11>>

\* the lower-cased vocabulary words a status cell contains
Tokens(cell) ==
    CASE cell = "Delivered" -> {"delivered"}
      [] cell = "Cancelled" -> {"cancelled"}
      [] cell = "Picked Up" -> {}
      [] cell = "zh:completed" -> {"zh:completed"}
      [] cell = "zh:cancelled" -> {"zh:cancelled"}
      [] cell = "zh:refunded" -> {}
      [] cell = "Prepaid Order" -> {"prepaid", "order"}
      [] cell = "Cancellation" -> {}
      [] cell = "Adjustment" -> {}
      [] OTHER -> {}

\* Series.str.contains('a|b', case=False, na=False) of one cell
str_contains(cell, alternatives) == Tokens(cell) \cap alternatives # {}

-----------------------------------------------------------------------------
(* Frames: the DataFrame a normalizer returns *)

\* pd.DataFrame(): no columns, no rows
EmptyDataFrame == [canonical |-> FALSE, rows |-> <<>>]

NoError == <<>>

KeyError(name) == <<"KeyError", name>>

IndexOutOfBounds == <<"IndexError", "single positional indexer is out-of-bounds">>

\* st.error(f"<platform> processing error: {e}")
Diagnostic(platform, exception) ==
    [platform |-> platform, kind |-> exception[1], detail |-> exception[2]]

RECURSIVE FirstMissing(_, _)
\* the first of the names (in access order) that is no column, "" when all are
FirstMissing(columns, names) ==
    IF names = <<>> THEN ""
    ELSE IF names[1] \in Range(columns) THEN FirstMissing(columns, Tail(names))
    ELSE names[1]

-----------------------------------------------------------------------------
(* try: ... except Exception as e: st.error(...); return pd.DataFrame() *)

\* the normalizers without their except clause: the exception reaches main()
TryExceptMissing(platform, body) ==
    [frame |-> body.frame, error |-> <<>>, raised |-> body.exc # NoError]

\* the except clause of the three normalizers: nothing escapes to the caller
TryExcept(platform, body) ==
    IF body.exc # NoError
    THEN [frame |-> EmptyDataFrame,
          error |-> <<Diagnostic(platform, body.exc)>>,
          raised |-> FALSE]
    ELSE [frame |-> body.frame, error |-> <<>>, raised |-> FALSE]

-----------------------------------------------------------------------------
(* process_doordash_data *)

\* the columns process_doordash_data reads with df[...], in the order read
DoorDashAccessOrder ==
    <<"zh:timestamp_local_date", "zh:net_total", "zh:subtotal",
      "zh:tax_subtotal", "zh:staff_tips", "zh:commission", "zh:marketing_fee",
      "zh:final_order_status", "zh:timestamp_local_time">>

\* one row of the frame after the column assignments of lines 71-94
DoorDashRecord(columns, row, i) ==
    LET date == to_datetime(Cell(columns, row, "zh:timestamp_local_date"))
        status == Cell(columns, row, "zh:final_order_status")
    IN  [Date |-> date,
         Platform |-> "DoorDash",
         Revenue |-> to_numeric(Cell(columns, row, "zh:net_total")),
         Subtotal |-> to_numeric(Cell(columns, row, "zh:subtotal")),
         Tax |-> to_numeric(Cell(columns, row, "zh:tax_subtotal")),
         Tips |-> to_numeric(Cell(columns, row, "zh:staff_tips")),
         Commission |-> to_numeric(Cell(columns, row, "zh:commission")),
         Marketing_Fee |-> to_numeric(Cell(columns, row, "zh:marketing_fee")),
         Is_Completed |-> str_contains(status, {"delivered"}),
         Is_Cancelled |-> str_contains(status, {"cancelled"}),
         Order_ID |-> IF "zh:doordash_order_id" \in Range(columns)
                      THEN Cell(columns, row, "zh:doordash_order_id")
                      ELSE IndexStr(i),
         Hour |-> hour_of(Cell(columns, row, "zh:timestamp_local_time")),
         DayOfWeek |-> day_name(date),
         Month |-> to_period_M(date)]

\* the filter followed by .iloc[1:], as if a header line were still to skip
DoorDashCleanSkipFirst(records) ==
    LET kept == FilterSeq(records, [i \in 1..Len(records) |->
                   notna(records[i].Date) /\ notna(records[i].Revenue)])
    IN  IF kept = <<>> THEN kept ELSE Tail(kept)

\* the filter with the refunds dropped as well
DoorDashCleanNoRefunds(records) ==
    FilterSeq(records, [i \in 1..Len(records) |->
                          /\ notna(records[i].Date)
                          /\ notna(records[i].Revenue)
                          /\ records[i].Revenue[1] >= 0])

\* df[df['Date'].notna() & df['Revenue'].notna()]
DoorDashClean(records) ==
    FilterSeq(records, [i \in 1..Len(records) |->
                          notna(records[i].Date) /\ notna(records[i].Revenue)])

\* the try block of process_doordash_data
DoorDashBody(table) ==
    LET missing == FirstMissing(table.columns, DoorDashAccessOrder)
    IN  IF missing # ""
        THEN [exc |-> KeyError(missing), frame |-> EmptyDataFrame]
        ELSE [exc |-> NoError,
              frame |-> [canonical |-> TRUE,
                         rows |-> DoorDashClean(
                            [i \in 1..Len(table.rows) |->
                               DoorDashRecord(table.columns, table.rows[i], i)])]]

process_doordash_data(table) == TryExcept("DoorDash", DoorDashBody(table))

-----------------------------------------------------------------------------
(* process_uber_data *)

\* df.iloc[:, 8]: the 0-based position the date falls back to
UberDateIloc == 8

\* df.iloc[:, -7] is the 7th column from the end
UberRevenueFromEnd == 7

\* lines 109-113: when the date header is absent and there is more than one
\* row, row 0 is dropped, the next row becomes the header and is dropped too
UberPromoteHeader(table) ==
    IF "zh:order_date" \notin Range(table.columns) /\ Len(table.rows) > 1
    THEN [columns |-> table.rows[2],
          rows |-> SubSeq(table.rows, 3, Len(table.rows))]
    ELSE table

\* lines 116-142: the column names of the two header conventions
UberFieldNames(columns) ==
    IF "zh:order_date" \in Range(columns)
    THEN [date_col |-> "zh:order_date",
          revenue_col |-> "zh:total_revenue",
          status_col |-> "zh:order_status",
          order_col |-> "zh:order_id",
          accept_time_col |-> "zh:order_accept_time",
          subtotal_col |-> "zh:sales_excl_tax",
          tax_col |-> "zh:sales_tax",
          tip_col |-> "zh:tip",
          fee_col |-> "zh:platform_service_fee",
          marketing_col |-> "zh:marketing_adjustment"]
    ELSE [date_col |-> "zh:desc:order_date",
          revenue_col |-> "zh:total_revenue",
          status_col |-> "zh:desc:order_status",
          order_col |-> "zh:desc:order_id",
          accept_time_col |-> "zh:desc:order_accept_time",
          subtotal_col |-> "zh:sales_excl_tax",
          tax_col |-> "zh:sales_tax",
          tip_col |-> "zh:tip",
          fee_col |-> "zh:platform_service_fee",
          marketing_col |-> "zh:marketing_adjustment"]

\* df[name] = ... : a new column goes to the end, an existing one is replaced
AssignColumn(columns, name) ==
    IF name \in Range(columns) THEN columns ELSE Append(columns, name)

\* the date read from column 8 whenever the frame has one, the header second
UberDateSourcePositionFirst(columns, date_col) ==
    IF Len(columns) >= UberDateIloc + 1 THEN UberDateIloc + 1
    ELSE ColIndex(columns, date_col)

\* line 145: the position of the column Date is read from, 0 for IndexError
UberDateSource(columns, date_col) ==
    IF date_col \in Range(columns) THEN ColIndex(columns, date_col)
    ELSE IF Len(columns) >= UberDateIloc + 1 THEN UberDateIloc + 1
    ELSE 0

\* line 147: the position of the column Revenue is read from, 0 for
\* IndexError; by then the frame has the columns Date and Platform too
UberRevenueSource(columns, revenue_col) ==
    LET now == AssignColumn(AssignColumn(columns, "Date"), "Platform")
    IN  IF revenue_col \in Range(now) THEN ColIndex(now, revenue_col)
        ELSE IF Len(now) >= UberRevenueFromEnd
             THEN Len(now) - UberRevenueFromEnd + 1
        ELSE 0

\* lines 150-154: an optional amount, the scalar 0 when the column is absent
UberOptional(columns, row, name) ==
    IF name \in Range(columns) THEN to_numeric(Cell(columns, row, name))
    ELSE <<0>>

\* whether line 175 draws the hours at random
UberNeedsRandomHour(table) ==
    LET t == UberPromoteHeader(table)
    IN  UberFieldNames(t.columns).accept_time_col \notin Range(t.columns)

\* one row of the frame after the column assignments of lines 145-178
UberRecord(columns, row, i, datePos, revenuePos, hour) ==
    LET f == UberFieldNames(columns)
        date == to_datetime(row[datePos])
    IN  [Date |-> date,
         Platform |-> "Uber",
         Revenue |-> IF revenuePos <= Len(columns)
                     THEN to_numeric(row[revenuePos]) ELSE NaN,
         Subtotal |-> UberOptional(columns, row, f.subtotal_col),
         Tax |-> UberOptional(columns, row, f.tax_col),
         Tips |-> UberOptional(columns, row, f.tip_col),
         Commission |-> UberOptional(columns, row, f.fee_col),
         Marketing_Fee |-> UberOptional(columns, row, f.marketing_col),
         Is_Completed |->
            IF f.status_col \in Range(columns)
            THEN str_contains(Cell(columns, row, f.status_col),
                              {"zh:completed", "completed"})
            ELSE TRUE,
         Is_Cancelled |->
            IF f.status_col \in Range(columns)
            THEN str_contains(Cell(columns, row, f.status_col),
                              {"zh:cancelled", "cancelled"})
            ELSE FALSE,
         Order_ID |-> IF f.order_col \in Range(columns)
                      THEN Cell(columns, row, f.order_col)
                      ELSE IndexStr(i),
         Hour |-> IF f.accept_time_col \in Range(columns)
                  THEN hour_of(Cell(columns, row, f.accept_time_col))
                  ELSE <<hour>>,
         DayOfWeek |-> day_name(date),
         Month |-> to_period_M(date)]

\* df[df['Date'].notna()]
UberClean(records) ==
    FilterSeq(records, [i \in 1..Len(records) |-> notna(records[i].Date)])

\* the try block of process_uber_data; hours are the np.random.choice draws
UberBody(table, hours) ==
    LET t == UberPromoteHeader(table)
        f == UberFieldNames(t.columns)
        datePos == UberDateSource(t.columns, f.date_col)
        revenuePos == UberRevenueSource(t.columns, f.revenue_col)
    IN  IF datePos = 0 \/ revenuePos = 0
        THEN [exc |-> IndexOutOfBounds, frame |-> EmptyDataFrame]
        ELSE [exc |-> NoError,
              frame |-> [canonical |-> TRUE,
                         rows |-> UberClean(
                            [i \in 1..Len(t.rows) |->
                               UberRecord(t.columns, t.rows[i], i, datePos,
                                          revenuePos,
                                          IF i \in DOMAIN hours
                                          THEN hours[i] ELSE 0)])]]

\* process_uber_data with its body outside the try block
process_uber_data_unguarded(table, hours) ==
    TryExceptMissing("Uber", UberBody(table, hours))

process_uber_data(table, hours) == TryExcept("Uber", UberBody(table, hours))

-----------------------------------------------------------------------------
(* process_grubhub_data *)

\* the columns process_grubhub_data reads with df[...], in the order read
GrubhubAccessOrder ==
    <<"transaction_date", "merchant_net_total", "subtotal",
      "subtotal_sales_tax", "tip", "commission", "merchant_funded_promotion",
      "transaction_type">>

\* whether line 217 draws the hours at random
GrubhubNeedsRandomHour(table) ==
    "transaction_time_local" \notin Range(table.columns)

\* one row of the frame after the column assignments of lines 193-220
GrubhubRecord(columns, row, i, hour) ==
    LET date == to_datetime(Cell(columns, row, "transaction_date"))
    IN  [Date |-> date,
         Platform |-> "Grubhub",
         Revenue |-> to_numeric(Cell(columns, row, "merchant_net_total")),
         Subtotal |-> to_numeric(Cell(columns, row, "subtotal")),
         Tax |-> to_numeric(Cell(columns, row, "subtotal_sales_tax")),
         Tips |-> to_numeric(Cell(columns, row, "tip")),
         Commission |-> to_numeric(Cell(columns, row, "commission")),
         Marketing_Fee |->
            to_numeric(Cell(columns, row, "merchant_funded_promotion")),
         Is_Completed |->
            str_contains(Cell(columns, row, "transaction_type"),
                         {"prepaid", "order"}),
         Is_Cancelled |-> FALSE,
         Order_ID |-> IF "order_number" \in Range(columns)
                      THEN Cell(columns, row, "order_number")
                      ELSE IndexStr(i),
         Hour |-> IF "transaction_time_local" \in Range(columns)
                  THEN hour_of(Cell(columns, row, "transaction_time_local"))
                  ELSE <<hour>>,
         DayOfWeek |-> day_name(date),
         Month |-> to_period_M(date)]

\* df[df['Date'].notna()]
GrubhubClean(records) ==
    FilterSeq(records, [i \in 1..Len(records) |-> notna(records[i].Date)])

\* the try block of process_grubhub_data; hours are the np.random.choice draws
GrubhubBody(table, hours) ==
    LET missing == FirstMissing(table.columns, GrubhubAccessOrder)
    IN  IF missing # ""
        THEN [exc |-> KeyError(missing), frame |-> EmptyDataFrame]
        ELSE [exc |-> NoError,
              frame |-> [canonical |-> TRUE,
                         rows |-> GrubhubClean(
                            [i \in 1..Len(table.rows) |->
                               GrubhubRecord(table.columns, table.rows[i], i,
                                             IF i \in DOMAIN hours
                                             THEN hours[i] ELSE 0)])]]

process_grubhub_data(table, hours) ==
    TryExcept("Grubhub", GrubhubBody(table, hours))

-----------------------------------------------------------------------------
(* The uploaded tables the model draws from *)

DoorDashColumns == DoorDashAccessOrder

UberColumns ==
    <<"zh:restaurant_name", "zh:restaurant_id", "zh:order_id",
      "zh:order_status", "zh:order_accept_time", "zh:total_revenue",
      "zh:sales_excl_tax", "zh:sales_tax", "zh:order_date", "zh:tip",
      "zh:platform_service_fee", "zh:marketing_adjustment">>

\* the descriptive first header line of an Uber export
UberProseColumns ==
    <<"zh:desc:restaurant_name", "zh:desc:restaurant_id", "zh:desc:order_id",
      "zh:desc:order_status", "zh:desc:order_accept_time",
      "zh:desc:total_revenue", "zh:desc:sales_excl_tax", "zh:desc:sales_tax",
      "zh:desc:order_date", "zh:desc:tip", "zh:desc:platform_service_fee",
      "zh:desc:marketing_adjustment">>

GrubhubColumns ==
    <<"transaction_date", "transaction_time_local", "merchant_net_total",
      "subtotal", "subtotal_sales_tax", "tip", "commission",
      "merchant_funded_promotion", "transaction_type">>

DateColumns ==
    {"zh:timestamp_local_date", "zh:order_date", "zh:desc:order_date",
     "transaction_date"}

RevenueColumns ==
    {"zh:net_total", "zh:total_revenue", "zh:desc:total_revenue",
     "merchant_net_total"}

StatusColumns ==
    {"zh:final_order_status", "zh:order_status", "zh:desc:order_status",
     "transaction_type"}

TimeColumns ==
    {"zh:timestamp_local_time", "zh:order_accept_time",
     "zh:desc:order_accept_time", "transaction_time_local"}

AmountColumns ==
    {"zh:subtotal", "zh:tax_subtotal", "zh:staff_tips", "zh:commission",
     "zh:marketing_fee", "zh:sales_excl_tax", "zh:sales_tax", "zh:tip",
     "zh:platform_service_fee", "zh:marketing_adjustment",
     "zh:desc:sales_excl_tax", "zh:desc:sales_tax", "zh:desc:tip",
     "zh:desc:platform_service_fee", "zh:desc:marketing_adjustment",
     "subtotal", "subtotal_sales_tax", "tip", "commission",
     "merchant_funded_promotion"}

\* the status text of an order on each platform
StatusText(platform, s) ==
    CASE platform = "DoorDash" ->
            (CASE s = "completed" -> "Delivered"
               [] s = "cancelled" -> "Cancelled"
               [] OTHER -> "Picked Up")
      [] platform = "Uber" ->
            (CASE s = "completed" -> "zh:completed"
               [] s = "cancelled" -> "zh:cancelled"
               [] OTHER -> "zh:refunded")
      [] OTHER ->
            (CASE s = "completed" -> "Prepaid Order"
               [] s = "cancelled" -> "Cancellation"
               [] OTHER -> "Adjustment")

\* what one exported order looks like: its date, revenue, status and
\* time-of-day cells
OrderProfiles ==
    {o \in [d : {"2025-09-30", "2025-10-01", "########"},
            r : {"10.00", "-5.00", "abc"},
            s : {"completed", "cancelled", "other"},
            t : {"12:30:00", "08:05:00"}] :
        /\ o.s = "completed" \/ (o.d = "2025-10-01" /\ o.r = "10.00")
        /\ o.t = "08:05:00" =>
              (o.d = "2025-10-01" /\ o.r = "10.00" /\ o.s = "completed")}

\* the orders of a session in which all three platforms are uploaded
SessionProfiles(platform) ==
    CASE platform = "DoorDash" ->
            {[d |-> "2025-09-30", r |-> "10.00", s |-> "completed",
              t |-> "12:30:00"],
             [d |-> "2025-10-01", r |-> "25.50", s |-> "completed",
              t |-> "12:30:00"]}
      [] platform = "Uber" ->
            {[d |-> "2025-09-30", r |-> "-10.00", s |-> "completed",
              t |-> "12:30:00"],
             [d |-> "2025-10-02", r |-> "10.00", s |-> "completed",
              t |-> "12:30:00"]}
      [] OTHER ->
            {[d |-> "2025-10-01", r |-> "-5.00", s |-> "completed",
              t |-> "12:30:00"],
             [d |-> "2025-11-03", r |-> "25.50", s |-> "cancelled",
              t |-> "12:30:00"]}

\* the row of the export for an order, under the given header
RowOf(columns, platform, o) ==
    [i \in 1..Len(columns) |->
        CASE columns[i] \in DateColumns -> o.d
          [] columns[i] \in RevenueColumns -> o.r
          [] columns[i] \in StatusColumns -> StatusText(platform, o.s)
          [] columns[i] \in TimeColumns -> o.t
          [] columns[i] \in AmountColumns -> "1.00"
          [] OTHER -> "x"]

\* the header without its i-th column
DropColumn(columns, i) ==
    SubSeq(columns, 1, i - 1) \o SubSeq(columns, i + 1, Len(columns))

\* the header without the named column
Without(columns, name) == DropColumn(columns, ColIndex(columns, name))

\* the sequences of at most n orders
OrderLists(profiles, n) == UNION {[1..k -> profiles] : k \in 0..n}

\* the export of the orders under a header that carries the column names
DirectTable(columns, platform, orders) ==
    [columns |-> columns,
     rows |-> [i \in 1..Len(orders) |-> RowOf(columns, platform, orders[i])]]

\* an Uber export with two header lines: the prose line is the header and the
\* line of column names is row 0
UberTwoRowTable(orders) ==
    [columns |-> UberProseColumns,
     rows |-> <<UberColumns>> \o
              [i \in 1..Len(orders) |-> RowOf(UberColumns, "Uber", orders[i])]]

DoorDashLayouts ==
    {DoorDashColumns, <<>>,
     Without(DoorDashColumns, "zh:timestamp_local_date"),
     Without(DoorDashColumns, "zh:net_total"),
     Without(DoorDashColumns, "zh:subtotal"),
     Without(DoorDashColumns, "zh:final_order_status"),
     Without(DoorDashColumns, "zh:timestamp_local_time")}

UberLayouts ==
    {UberColumns, <<>>,
     <<"zh:order_date", "zh:total_revenue">>,
     <<"zh:order_date", "zh:order_status">>,
     Without(UberColumns, "zh:order_date"),
     Without(UberColumns, "zh:total_revenue"),
     Without(UberColumns, "zh:sales_excl_tax"),
     Without(UberColumns, "zh:order_status"),
     Without(UberColumns, "zh:order_accept_time")}

GrubhubLayouts ==
    {GrubhubColumns, <<>>,
     Without(GrubhubColumns, "transaction_date"),
     Without(GrubhubColumns, "merchant_net_total"),
     Without(GrubhubColumns, "subtotal"),
     Without(GrubhubColumns, "transaction_type"),
     Without(GrubhubColumns, "transaction_time_local")}

\* a table with no column has no row either
TablesOf(layouts, platform, profiles, n) ==
    {DirectTable(c, platform, os) :
        <<c, os>> \in {x \in layouts \X OrderLists(profiles, n) :
                          x[1] = <<>> => x[2] = <<>>}}

\* the headers under which the normalizer fails before it reads a row: each
\* lacks a column that is read by its name alone
DoorDashFailingLayouts == DoorDashLayouts \ {DoorDashColumns, <<>>}

\* the tables under a failing header have one row less
DoorDashTables ==
    TablesOf(DoorDashLayouts \ DoorDashFailingLayouts, "DoorDash",
             OrderProfiles, MaxRows)
    \cup TablesOf(DoorDashFailingLayouts, "DoorDash", OrderProfiles, MaxRows - 1)

\* the Uber headers followed with every row count: every column, none, no
\* revenue column and too short for the fallback, and the named date and
\* revenue columns off their fallback positions
UberLongLayouts ==
    {UberColumns, <<>>, <<"zh:order_date", "zh:order_status">>,
     Without(UberColumns, "zh:sales_excl_tax")}

\* the tables under the other headers have one row less
UberTables ==
    TablesOf(UberLongLayouts, "Uber", OrderProfiles, MaxRows)
    \cup TablesOf(UberLayouts \ UberLongLayouts, "Uber", OrderProfiles,
                  MaxRows - 1)
    \cup {UberTwoRowTable(os) : os \in OrderLists(OrderProfiles, MaxRows)}
    \cup {[columns |-> UberProseColumns, rows |-> <<>>]}

\* the headers that lack a column: the normalizer fails before it reads a
\* row, or draws an hour for every row
GrubhubShortLayouts == GrubhubLayouts \ {GrubhubColumns, <<>>}

\* the tables under a header that lacks a column have one row less
GrubhubTables ==
    TablesOf(GrubhubLayouts \ GrubhubShortLayouts, "Grubhub", OrderProfiles,
             MaxRows)
    \cup TablesOf(GrubhubShortLayouts, "Grubhub", OrderProfiles, MaxRows - 1)

NoTable == [columns |-> <<>>, rows |-> <<>>]

\* the tables the model uploads for a platform on its own
TablesFor(platform) ==
    CASE platform = "DoorDash" -> DoorDashTables
      [] platform = "Uber" -> UberTables
      [] OTHER -> GrubhubTables

\* the one order of a session table that lacks a column
SessionOrder ==
    <<[d |-> "2025-10-01", r |-> "10.00", s |-> "completed", t |-> "12:30:00"]>>

SessionDoorDash ==
    TablesOf({DoorDashColumns}, "DoorDash", SessionProfiles("DoorDash"),
             MaxSessionRows)
    \cup {DirectTable(Without(DoorDashColumns, "zh:net_total"), "DoorDash",
                      SessionOrder)}

SessionUber ==
    TablesOf({UberColumns}, "Uber", SessionProfiles("Uber"), MaxSessionRows)
    \cup {DirectTable(<<"zh:order_date", "zh:order_status">>, "Uber",
                      SessionOrder)}

SessionGrubhub ==
    TablesOf({GrubhubColumns}, "Grubhub", SessionProfiles("Grubhub"),
             MaxSessionRows)
    \cup {DirectTable(Without(GrubhubColumns, "transaction_date"), "Grubhub",
                      SessionOrder)}

\* the orders of a session that spans two months
LongProfiles(platform) ==
    CASE platform = "DoorDash" ->
            {[d |-> "2025-09-30", r |-> "10.00", s |-> "completed",
              t |-> "12:30:00"],
             [d |-> "2025-10-01", r |-> "25.50", s |-> "completed",
              t |-> "12:30:00"]}
      [] platform = "Uber" ->
            {[d |-> "2025-09-30", r |-> "0.00", s |-> "completed",
              t |-> "12:30:00"],
             [d |-> "2025-10-31", r |-> "1.00", s |-> "completed",
              t |-> "12:30:00"]}
      [] OTHER ->
            {[d |-> "2025-09-30", r |-> "-5.00", s |-> "completed",
              t |-> "12:30:00"],
             [d |-> "2025-10-31", r |-> "0.00", s |-> "cancelled",
              t |-> "12:30:00"]}

LongDoorDash ==
    TablesOf({DoorDashColumns}, "DoorDash", LongProfiles("DoorDash"),
             MaxLongRows)

LongUber == TablesOf({UberColumns}, "Uber", LongProfiles("Uber"), MaxLongRows)

LongGrubhub ==
    TablesOf({GrubhubColumns}, "Grubhub", LongProfiles("Grubhub"), MaxLongRows)

\* the hours np.random.choice(range(8, 22)) can draw that the model follows
HourSample == {8, 21}

\* the date_input selections the model follows: October 2025
DateRanges == {<<30, 60>>}

-----------------------------------------------------------------------------
(* main(): growth metrics, lines 410-426 *)

RECURSIVE SortedSeq(_)
\* the numbers of a set in ascending order
SortedSeq(S) ==
    IF S = {} THEN <<>>
    ELSE LET m == CHOOSE x \in S : \A y \in S : x <= y
         IN  <<m>> \o SortedSeq(S \ {m})

\* the keys of groupby('MonthYear'): the months present, ascending, nulls out
MonthKeys(rows) ==
    SortedSeq({rows[i].Month[1] : i \in {j \in 1..Len(rows) : notna(rows[j].Month)}})

\* the rows of one month, in order
RowsOfMonth(rows, m) ==
    FilterSeq(rows, [i \in 1..Len(rows) |-> rows[i].Month = <<m>>])

\* completed_df.groupby('MonthYear')['Revenue'].sum()
MonthlyRevenue(rows) ==
    LET keys == MonthKeys(rows)
    IN  [k \in 1..Len(keys) |->
            LET g == RowsOfMonth(rows, keys[k])
            IN  SumNum([i \in 1..Len(g) |-> g[i].Revenue])]

\* completed_df.groupby('MonthYear').size()
MonthlyOrders(rows) ==
    LET keys == MonthKeys(rows)
    IN  [k \in 1..Len(keys) |-> Len(RowsOfMonth(rows, keys[k]))]

\* line 412: completed_df['MonthYear'] = completed_df['Date'].dt.to_period('M')
\* adds the column to the frame it is computed from
WithMonthYear(rows) ==
    [i \in 1..Len(rows) |->
        [f \in DOMAIN rows[i] \cup {"MonthYear"} |->
            IF f = "MonthYear" THEN to_period_M(rows[i].Date) ELSE rows[i][f]]]

\* the literal 0 both growth figures default to
ZeroGrowth == [num |-> 0, den |-> 1]

\* the growth guarded by len(series) >= 1: iloc[-2] of a single period raises
GrowthOfLooseGuard(series) ==
    IF Len(series) > 1
    THEN [raised |-> FALSE,
          value |-> [num |-> (series[Len(series)] - series[Len(series) - 1]) * 100,
                     den |-> series[Len(series) - 1]]]
    ELSE IF Len(series) = 1
    THEN [raised |-> TRUE, value |-> ZeroGrowth]
    ELSE [raised |-> FALSE, value |-> ZeroGrowth]

\* (series.iloc[-1] - series.iloc[-2]) / series.iloc[-2] * 100 as the exact
\* fraction num/den (den = 0: the float division yields inf or nan), guarded
\* by len(series) > 1; raised is an IndexError of iloc
GrowthOf(series) ==
    IF Len(series) > 1
    THEN [raised |-> FALSE,
          value |-> [num |-> (series[Len(series)] - series[Len(series) - 1]) * 100,
                     den |-> series[Len(series) - 1]]]
    ELSE [raised |-> FALSE, value |-> ZeroGrowth]

\* a growth figure that is the number 0
IsZero(g) == g.den # 0 /\ g.num = 0

-----------------------------------------------------------------------------
(* calculate_rfm_scores, lines 254-304 *)

\* the Order_ID values of the model in the order groupby sorts its keys
OrderIdOrder == <<"0", "1", "2", "3", "4", "5", "6", "7", "8", "9", "x">>

\* the keys of groupby('Order_ID'), sorted
GroupKeys(rows) ==
    FilterSeq(OrderIdOrder, [k \in 1..Len(OrderIdOrder) |->
        \E i \in 1..Len(rows) : rows[i].Order_ID = OrderIdOrder[k]])

\* the rows of one Order_ID, in order
RowsOfOrder(rows, key) ==
    FilterSeq(rows, [i \in 1..Len(rows) |-> rows[i].Order_ID = key])

\* Series.max() of the dates, nulls skipped
MaxDate(rows) ==
    LET days == {rows[i].Date[1] : i \in {j \in 1..Len(rows) : notna(rows[j].Date)}}
    IN  CHOOSE d \in days : \A e \in days : e <= d

\* lines 259-267: one line per Order_ID with Recency (days), Frequency (the
\* count of non-null revenues) and Monetary (their sum)
RfmTable(rows) ==
    LET keys == GroupKeys(rows)
        current_date == MaxDate(rows)
    IN  [k \in 1..Len(keys) |->
            LET g == RowsOfOrder(rows, keys[k])
            IN  [Customer_ID |-> keys[k],
                 Recency |-> current_date - MaxDate(g),
                 Frequency |-> Len(FilterSeq(g, [i \in 1..Len(g) |->
                                                   notna(g[i].Revenue)])),
                 Monetary |-> SumNum([i \in 1..Len(g) |-> g[i].Revenue])]]

RECURSIVE SortValues(_)
\* the numbers of a sequence in ascending order, repetitions kept
SortValues(s) ==
    IF s = <<>> THEN <<>>
    ELSE LET i == CHOOSE j \in 1..Len(s) : \A k \in 1..Len(s) : s[j] <= s[k]
         IN  <<s[i]>> \o SortValues(SubSeq(s, 1, i - 1) \o SubSeq(s, i + 1, Len(s)))

\* Series.quantile([0, .25, .5, .75, 1]) with linear interpolation; each edge
\* is given times 4, which keeps it a whole number
QuartileEdges4(values) ==
    LET x == SortValues(values)
        n == Len(x)
    IN  [e \in 1..5 |->
            LET h == (n - 1) * (e - 1)
                lo == (h \div 4) + 1
                fr == h % 4
            IN  4 * x[lo] + (IF fr = 0 THEN 0 ELSE fr * (x[lo + 1] - x[lo]))]

\* pd.qcut(values, q=4, labels=...): the number (1..4) of the bin of each
\* value, lowest edge included; raised is the ValueError "Bin edges must be
\* unique" of edges that repeat
qcut(values) ==
    LET edges == QuartileEdges4(values)
    IN  IF \E e \in 1..4 : edges[e] = edges[e + 1]
        THEN [raised |-> TRUE, bins |-> <<>>]
        ELSE [raised |-> FALSE,
              bins |-> [i \in 1..Len(values) |->
                 LET below == Cardinality({e \in 1..5 : edges[e] < 4 * values[i]})
                 IN  IF below = 0 THEN 1 ELSE below]]

\* Series.rank(method='first'): ties ranked in order of appearance
RankFirst(values) ==
    [i \in 1..Len(values) |->
        1 + Cardinality({j \in 1..Len(values) :
                            \/ values[j] < values[i]
                            \/ values[j] = values[i] /\ j < i})]

\* the number of buckets of each pd.qcut call, lines 269-271
Quartiles == 4

\* the three-digit codes R_Score + F_Score + M_Score can make, read as numbers
RfmCodes ==
    {100 * r + 10 * f + m : r \in 1..Quartiles, f \in 1..Quartiles,
                            m \in 1..Quartiles}

\* a table in which the second branch repeats a code of the first
SegmentTableOverlapping ==
    <<[name |-> "Champions", codes |-> {444, 443, 434, 344}],
      [name |-> "Loyal Customers", codes |-> {444, 442, 441, 432, 431, 342, 341}],
      [name |-> "Hibernating", codes |-> {114, 113, 112, 111}]>>

\* the branches of segment_customers, lines 278-298, in their order
SegmentTable ==
    <<[name |-> "Champions", codes |-> {444, 443, 434, 344}],
      [name |-> "Loyal Customers", codes |-> {442, 441, 432, 431, 342, 341}],
      [name |-> "Potential Loyalists", codes |-> {433, 423, 424, 333, 334}],
      [name |-> "New Customers", codes |-> {411, 412, 421, 311}],
      [name |-> "Promising", codes |-> {331, 321, 312, 322}],
      [name |-> "Need Attention", codes |-> {332, 323, 324, 314}],
      [name |-> "About to Sleep", codes |-> {144, 143, 134, 133, 234, 233}],
      [name |-> "At Risk", codes |-> {244, 243, 242, 241}],
      [name |-> "Cannot Lose Them", codes |-> {124, 123, 122, 121, 224, 223}],
      [name |-> "Hibernating", codes |-> {114, 113, 112, 111}]>>

\* the if/elif chain over a table of branches: the first branch whose list
\* holds the score, 'Other' when none does
FirstBranch(table, score) ==
    LET hits == {b \in 1..Len(table) : score \in table[b].codes}
    IN  IF hits = {} THEN "Other"
        ELSE table[CHOOSE b \in hits : \A c \in hits : b <= c].name

\* segment_customers, lines 277-300, on the score read as a number
segment_customers(score) == FirstBranch(SegmentTable, score)

\* calculate_rfm_scores(df): nothing for a frame without rows; raised when
\* one of the three pd.qcut calls raises
calculate_rfm_scores(rows) ==
    IF rows = <<>> THEN [raised |-> FALSE, rows |-> <<>>]
    ELSE LET rfm == RfmTable(rows)
             r == qcut([k \in 1..Len(rfm) |-> rfm[k].Recency])
             f == qcut(RankFirst([k \in 1..Len(rfm) |-> rfm[k].Frequency]))
             m == qcut([k \in 1..Len(rfm) |-> rfm[k].Monetary])
         IN  IF r.raised \/ f.raised \/ m.raised
             THEN [raised |-> TRUE, rows |-> <<>>]
             ELSE [raised |-> FALSE,
                   rows |-> [k \in 1..Len(rfm) |->
                      LET score == (5 - r.bins[k]) * 100 + f.bins[k] * 10
                                   + m.bins[k]
                      IN  [Customer_ID |-> rfm[k].Customer_ID,
                           Recency |-> rfm[k].Recency,
                           Frequency |-> rfm[k].Frequency,
                           Monetary |-> rfm[k].Monetary,
                           RFM_Score |-> score,
                           Segment |-> segment_customers(score)]]]

-----------------------------------------------------------------------------
(* calculate_retention_metrics, lines 230-252 *)

\* agg 'first': the value of the first row of the group, in dataset order
FirstOf(rows, key) == RowsOfOrder(rows, key)[1]

\* lines 236-243: one line per Order_ID with the date and platform of its
\* first row and the month of that date as Cohort
customer_orders(rows) ==
    LET keys == GroupKeys(rows)
    IN  [k \in 1..Len(keys) |->
            [Order_ID |-> keys[k],
             Date |-> FirstOf(rows, keys[k]).Date,
             Platform |-> FirstOf(rows, keys[k]).Platform,
             Cohort |-> to_period_M(FirstOf(rows, keys[k]).Date)]]

\* line 246: groupby(['Cohort', 'Platform']).size(), as the set of its lines
CohortSizes(orders) ==
    {[Cohort |-> orders[k].Cohort,
      Platform |-> orders[k].Platform,
      Customers |-> Cardinality({j \in 1..Len(orders) :
                                    /\ orders[j].Cohort = orders[k].Cohort
                                    /\ orders[j].Platform = orders[k].Platform})] :
        k \in {j \in 1..Len(orders) : notna(orders[j].Cohort)}}

\* lines 249-250: the distinct Order_ID values per month and platform
MonthlyActive(rows) ==
    {[Month |-> to_period_M(rows[i].Date),
      Platform |-> rows[i].Platform,
      Active_Customers |->
         Cardinality({rows[j].Order_ID : j \in {n \in 1..Len(rows) :
            /\ to_period_M(rows[n].Date) = to_period_M(rows[i].Date)
            /\ rows[n].Platform = rows[i].Platform}})] :
        i \in {j \in 1..Len(rows) : notna(rows[j].Date)}}

\* calculate_retention_metrics(df): two empty frames for a frame without rows
calculate_retention_metrics(rows) ==
    IF rows = <<>> THEN [cohort_data |-> {}, monthly_active |-> {}]
    ELSE [cohort_data |-> CohortSizes(customer_orders(rows)),
          monthly_active |-> MonthlyActive(rows)]

-----------------------------------------------------------------------------
(* main(): churn analysis and lifecycle stages, lines 1161-1245 *)

\* line 1171
churn_threshold == 30

\* the flag with the threshold itself counted as churned
IsChurnedAtThreshold(days) == days >= churn_threshold

\* line 1172: order_frequency['Days_Since_Last'] > churn_threshold
IsChurned(days) == days > churn_threshold

\* the platform names in the order groupby sorts them
PlatformOrder == <<"DoorDash", "Grubhub", "Uber">>

\* the earliest date of the rows
MinDate(rows) ==
    LET days == {rows[i].Date[1] : i \in {j \in 1..Len(rows) : notna(rows[j].Date)}}
    IN  CHOOSE d \in days : \A e \in days : d <= e

RECURSIVE FlattenSeq(_)
FlattenSeq(ss) == IF ss = <<>> THEN <<>> ELSE ss[1] \o FlattenSeq(Tail(ss))

\* lines 1162-1172: one line per (Order_ID, Platform) with the first and the
\* last date, the order count, the days from the last order to the latest
\* date of the dataset, and the churn flag
OrderFrequency(rows) ==
    LET keys == GroupKeys(rows)
        group(k, p) == FilterSeq(rows, [i \in 1..Len(rows) |->
                          rows[i].Order_ID = k /\ rows[i].Platform = p])
        line(k, p) ==
            LET g == group(k, p)
                days == MaxDate(rows) - MaxDate(g)
            IN  [Customer_ID |-> k,
                 Platform |-> p,
                 First_Order |-> MinDate(g),
                 Last_Order |-> MaxDate(g),
                 Order_Count |-> Len(g),
                 Days_Since_Last |-> days,
                 Is_Churned |-> IsChurned(days)]
    IN  FlattenSeq([k \in 1..Len(keys) |->
            FlattenSeq([p \in 1..3 |->
                IF group(keys[k], PlatformOrder[p]) = <<>> THEN <<>>
                ELSE <<line(keys[k], PlatformOrder[p])>>])])

\* line 1175: groupby('Platform')['Is_Churned'].mean() * 100, each rate as
\* the exact fraction num/den
ChurnByPlatform(frequency) ==
    LET present == {frequency[i].Platform : i \in 1..Len(frequency)}
    IN  [p \in present |->
            [num |-> 100 * Cardinality({i \in 1..Len(frequency) :
                        frequency[i].Platform = p /\ frequency[i].Is_Churned}),
             den |-> Cardinality({i \in 1..Len(frequency) :
                        frequency[i].Platform = p})]]

\* the stages with 'Loyal' reaching to 45 days since the last order
define_lifecycle_stage_late_loyal(row) ==
    IF row.Order_Count = 1 /\ row.Days_Since_Last <= 7 THEN "New Customer"
    ELSE IF row.Order_Count > 1 /\ row.Days_Since_Last <= 14 THEN "Active"
    ELSE IF row.Order_Count > 5 /\ row.Days_Since_Last <= 45 THEN "Loyal"
    ELSE IF row.Days_Since_Last > 30 /\ row.Days_Since_Last <= 60 THEN "At Risk"
    ELSE IF row.Days_Since_Last > 60 THEN "Churned"
    ELSE "Regular"

\* define_lifecycle_stage, lines 1229-1243
define_lifecycle_stage(row) ==
    IF row.Order_Count = 1 /\ row.Days_Since_Last <= 7 THEN "New Customer"
    ELSE IF row.Order_Count > 1 /\ row.Days_Since_Last <= 14 THEN "Active"
    ELSE IF row.Order_Count > 5 /\ row.Days_Since_Last <= 30 THEN "Loyal"
    ELSE IF row.Days_Since_Last > 30 /\ row.Days_Since_Last <= 60 THEN "At Risk"
    ELSE IF row.Days_Since_Last > 60 THEN "Churned"
    ELSE "Regular"

\* line 1245: order_frequency['Lifecycle_Stage'] = order_frequency.apply(...)
WithLifecycleStage(frequency) ==
    [i \in 1..Len(frequency) |->
        [f \in DOMAIN frequency[i] \cup {"Lifecycle_Stage"} |->
            IF f = "Lifecycle_Stage" THEN define_lifecycle_stage(frequency[i])
            ELSE frequency[i][f]]]

-----------------------------------------------------------------------------
(* main(): the session *)

NotCalled == [frame |-> EmptyDataFrame, error |-> <<>>, raised |-> FALSE,
              called |-> FALSE]

Called(r) == [frame |-> r.frame, error |-> r.error, raised |-> r.raised,
              called |-> TRUE]

\* nothing has been loaded or computed yet
NothingComputed ==
    /\ returned = [p \in Platforms |-> NotCalled]
    /\ all_data = <<>>
    /\ errors = <<>>
    /\ df = EmptyDataFrame
    /\ completed_df = <<>>
    /\ total_revenue = 0
    /\ total_orders = 0
    /\ revenue_growth = ZeroGrowth
    /\ order_growth = ZeroGrowth
    /\ rfm_data = <<>>
    /\ reloaded = [p \in Platforms |-> NotCalled]
    /\ crash_site = ""
    /\ cohort_data = {}
    /\ monthly_active = {}
    /\ order_frequency = <<>>
    /\ churn_by_platform = <<>>
    /\ uncached = [p \in Platforms |-> NotCalled]
    /\ lookup = [score |-> 0, segment |-> ""]

Init ==
    /\ pc = "doordash"
    /\ \/ /\ supplied = {}
          /\ raw = [q \in Platforms |-> NoTable]
       \/ \E p \in Platforms :
             /\ supplied = {p}
             /\ \E t \in TablesFor(p) :
                   raw = [q \in Platforms |-> IF q = p THEN t ELSE NoTable]
       \/ /\ raw \in [DoorDash : SessionDoorDash, Uber : SessionUber,
                      Grubhub : SessionGrubhub]
          /\ supplied = Platforms
    /\ date_range \in {<<>>} \cup DateRanges
    /\ NothingComputed

\* main() giving the session up when a normalizer reported an error
CollectedStopOnError(platform, r, next) ==
    /\ returned' = [returned EXCEPT ![platform] = Called(r)]
    /\ errors' = errors \o r.error
    /\ pc' = IF r.error # <<>> THEN "warned" ELSE next
    /\ all_data' = Append(all_data, r.frame)
    /\ UNCHANGED <<tab7, uncached, lookup>>
    /\ UNCHANGED <<supplied, raw, date_range, df, completed_df, total_revenue,
                   total_orders, revenue_growth, order_growth, rfm_data,
                   reloaded, crash_site>>

\* what main() does with one normalizer's return value (or with the
\* exception it lets through)
Collected(platform, r, next) ==
    /\ returned' = [returned EXCEPT ![platform] = Called(r)]
    /\ errors' = errors \o r.error
    /\ IF r.raised
       THEN /\ pc' = "crashed"
            /\ crash_site' = platform
            /\ all_data' = all_data
       ELSE /\ pc' = next
            /\ crash_site' = crash_site
            /\ all_data' = Append(all_data, r.frame)
    /\ UNCHANGED <<tab7, uncached, lookup>>
    /\ UNCHANGED <<supplied, raw, date_range, df, completed_df, total_revenue,
                   total_orders, revenue_growth, order_growth, rfm_data,
                   reloaded>>

\* no upload and no file on disk: the read fails and is passed over
Skipped(next) ==
    /\ pc' = next
    /\ UNCHANGED <<tab7, uncached, lookup>>
    /\ UNCHANGED <<supplied, raw, returned, all_data, errors, date_range, df,
                   completed_df, total_revenue, total_orders, revenue_growth,
                   order_growth, rfm_data, reloaded, crash_site>>

\* lines 339-347
LoadDoorDash ==
    /\ pc = "doordash"
    /\ IF "DoorDash" \in supplied
       THEN Collected("DoorDash", process_doordash_data(raw.DoorDash), "uber")
       ELSE Skipped("uber")

\* lines 349-357
LoadUber ==
    /\ pc = "uber"
    /\ IF "Uber" \in supplied
       THEN \E hours \in [1..(IF UberNeedsRandomHour(raw.Uber)
                              THEN Len(UberPromoteHeader(raw.Uber).rows)
                              ELSE 0) -> HourSample] :
               Collected("Uber", process_uber_data(raw.Uber, hours), "grubhub")
       ELSE Skipped("grubhub")

\* lines 359-367
LoadGrubhub ==
    /\ pc = "grubhub"
    /\ IF "Grubhub" \in supplied
       THEN \E hours \in [1..(IF GrubhubNeedsRandomHour(raw.Grubhub)
                              THEN Len(raw.Grubhub.rows)
                              ELSE 0) -> HourSample] :
               Collected("Grubhub", process_grubhub_data(raw.Grubhub, hours),
                         "combine")
       ELSE Skipped("combine")

RECURSIVE DropDuplicates(_)
\* the rows without the later copies of a row
DropDuplicates(rows) ==
    IF rows = <<>> THEN <<>>
    ELSE LET front == DropDuplicates(SubSeq(rows, 1, Len(rows) - 1))
         IN  IF rows[Len(rows)] \in Range(front) THEN front
             ELSE Append(front, rows[Len(rows)])

\* the concatenation followed by drop_duplicates()
unifyDropDuplicates(frames) ==
    [canonical |-> \E i \in 1..Len(frames) : frames[i].canonical,
     rows |-> DropDuplicates(Concat(frames))]

RECURSIVE DropDuplicateOrders(_)
\* the rows without the later rows of an Order_ID already seen
DropDuplicateOrders(rows) ==
    IF rows = <<>> THEN <<>>
    ELSE LET front == DropDuplicateOrders(SubSeq(rows, 1, Len(rows) - 1))
         IN  IF \E i \in 1..Len(front) :
                    front[i].Order_ID = rows[Len(rows)].Order_ID
             THEN front
             ELSE Append(front, rows[Len(rows)])

\* the concatenation followed by drop_duplicates(subset='Order_ID')
unifyDropDuplicateOrders(frames) ==
    [canonical |-> \E i \in 1..Len(frames) : frames[i].canonical,
     rows |-> DropDuplicateOrders(Concat(frames))]

\* pd.concat(all_data, ignore_index=True): the columns are the union of the
\* frames' columns, the rows follow one another
unify(frames) ==
    [canonical |-> \E i \in 1..Len(frames) : frames[i].canonical,
     rows |-> Concat(frames)]

\* line 375: df[(df['Date'].dt.date >= lo) & (df['Date'].dt.date <= hi)]
DateFilter(rows, range) ==
    FilterSeq(rows, [i \in 1..Len(rows) |->
                       /\ notna(rows[i].Date)
                       /\ rows[i].Date[1] >= range[1]
                       /\ rows[i].Date[1] <= range[2]])

\* lines 369-379
Combine ==
    /\ pc = "combine"
    /\ IF all_data = <<>>
       THEN /\ pc' = "warned"
            /\ UNCHANGED <<df, crash_site>>
       ELSE LET u == unify(all_data)
            IN  IF Len(date_range) = 2
                THEN IF u.canonical
                     THEN /\ df' = [u EXCEPT !.rows = DateFilter(u.rows, date_range)]
                          /\ pc' = "overview"
                          /\ UNCHANGED crash_site
                     ELSE /\ df' = u
                          /\ pc' = "crashed"
                          /\ crash_site' = "date_filter"
                ELSE /\ df' = u
                     /\ pc' = "overview"
                     /\ UNCHANGED crash_site
    /\ UNCHANGED <<tab7, uncached, lookup>>
    /\ UNCHANGED <<supplied, raw, returned, all_data, errors, date_range,
                   completed_df, total_revenue, total_orders, revenue_growth,
                   order_growth, rfm_data, reloaded>>

\* df[df['Is_Completed'] == True]
CompletedOnly(rows) ==
    FilterSeq(rows, [i \in 1..Len(rows) |-> rows[i].Is_Completed = TRUE])

\* lines 381-402 with every store selected (the widget's default): a frame
\* without the canonical columns has no Is_Completed (KeyError), and the
\* date range of a frame without rows is NaT, which has no strftime
Overview ==
    /\ pc = "overview"
    /\ IF ~df.canonical
       THEN /\ pc' = "crashed"
            /\ crash_site' = "completed_filter"
            /\ UNCHANGED completed_df
       ELSE IF df.rows = <<>>
       THEN /\ pc' = "crashed"
            /\ crash_site' = "sidebar_date_range"
            /\ completed_df' = CompletedOnly(df.rows)
       ELSE /\ pc' = "metrics"
            /\ completed_df' = CompletedOnly(df.rows)
            /\ UNCHANGED crash_site
    /\ UNCHANGED <<tab7, uncached, lookup>>
    /\ UNCHANGED <<supplied, raw, returned, all_data, errors, date_range, df,
                   total_revenue, total_orders, revenue_growth, order_growth,
                   rfm_data, reloaded>>

\* lines 404-426
GrowthMetrics ==
    /\ pc = "metrics"
    /\ completed_df' = IF Len(completed_df) > 0
                       THEN WithMonthYear(completed_df) ELSE completed_df
    /\ total_revenue' = SumNum([i \in 1..Len(completed_df) |->
                                  completed_df[i].Revenue])
    /\ total_orders' = Len(completed_df)
    /\ LET rev == IF Len(completed_df) > 0
                  THEN GrowthOf(MonthlyRevenue(completed_df))
                  ELSE [raised |-> FALSE, value |-> ZeroGrowth]
           ord == IF Len(completed_df) > 0
                  THEN GrowthOf(MonthlyOrders(completed_df))
                  ELSE [raised |-> FALSE, value |-> ZeroGrowth]
       IN  IF rev.raised \/ ord.raised
           THEN /\ pc' = "crashed"
                /\ crash_site' = "growth"
                /\ UNCHANGED <<revenue_growth, order_growth>>
           ELSE /\ pc' = "done"
                /\ revenue_growth' = rev.value
                /\ order_growth' = ord.value
                /\ UNCHANGED crash_site
    /\ UNCHANGED <<tab7, uncached, lookup>>
    /\ UNCHANGED <<supplied, raw, returned, all_data, errors, date_range, df,
                   rfm_data, reloaded>>

\* line 998 (tab 6); the tabs before it (lines 436-990) display completed_df
\* and df and assign none of the variables followed here.  The call is in no
\* try block: a ValueError of pd.qcut ends the script run
RFMAnalysis ==
    /\ pc = "done"
    /\ LET r == calculate_rfm_scores(completed_df)
       IN  IF r.raised
           THEN /\ pc' = "crashed"
                /\ crash_site' = "rfm"
                /\ UNCHANGED rfm_data
           ELSE /\ pc' = "segmented"
                /\ rfm_data' = r.rows
                /\ UNCHANGED crash_site
    /\ UNCHANGED <<tab7, uncached, lookup>>
    /\ UNCHANGED <<supplied, raw, returned, all_data, errors, date_range, df,
                   completed_df, total_revenue, total_orders, revenue_growth,
                   order_growth, reloaded>>

\* line 1119 (tab 7)
RetentionAnalysis ==
    /\ pc = "segmented"
    /\ LET r == calculate_retention_metrics(completed_df)
       IN  /\ cohort_data' = r.cohort_data
           /\ monthly_active' = r.monthly_active
    /\ pc' = "churn"
    /\ UNCHANGED <<order_frequency, churn_by_platform, uncached, lookup>>
    /\ UNCHANGED <<supplied, raw, returned, all_data, errors, date_range, df,
                   completed_df, total_revenue, total_orders, revenue_growth,
                   order_growth, rfm_data, reloaded, crash_site>>

\* lines 1161-1175
ChurnAnalysis ==
    /\ pc = "churn"
    /\ order_frequency' = OrderFrequency(completed_df)
    /\ churn_by_platform' = ChurnByPlatform(OrderFrequency(completed_df))
    /\ pc' = "lifecycle"
    /\ UNCHANGED <<cohort_data, monthly_active, uncached, lookup>>
    /\ UNCHANGED <<supplied, raw, returned, all_data, errors, date_range, df,
                   completed_df, total_revenue, total_orders, revenue_growth,
                   order_growth, rfm_data, reloaded, crash_site>>

\* lines 1229-1245.  On a frame without lines apply(axis=1) returns a frame,
\* not a column, and whether the assignment of it to one column raises
\* depends on the pandas release: both outcomes are followed
LifecycleStages ==
    /\ pc = "lifecycle"
    /\ \/ /\ order_frequency' = WithLifecycleStage(order_frequency)
          /\ pc' = "finished"
          /\ UNCHANGED crash_site
       \/ /\ order_frequency = <<>>
          /\ pc' = "crashed"
          /\ crash_site' = "lifecycle"
          /\ UNCHANGED order_frequency
    /\ UNCHANGED <<cohort_data, monthly_active, churn_by_platform, uncached,
                   lookup>>
    /\ UNCHANGED <<supplied, raw, returned, all_data, errors, date_range, df,
                   completed_df, total_revenue, total_orders, revenue_growth,
                   order_growth, rfm_data, reloaded>>

\* line 302 on one line of the RFM table: rfm.apply(segment_customers, axis=1)
SegmentLookup ==
    /\ pc = "lookup"
    /\ lookup' = [lookup EXCEPT !.segment = segment_customers(lookup.score)]
    /\ pc' = "looked"
    /\ UNCHANGED <<tab7, uncached>>
    /\ UNCHANGED <<supplied, raw, returned, all_data, errors, date_range, df,
                   completed_df, total_revenue, total_orders, revenue_growth,
                   order_growth, rfm_data, reloaded, crash_site>>

\* A later run of the script on the same three files, lines 339-367 again.
\* The normalizers are wrapped in @st.cache_data (lines 66, 104, 188): while
\* the process keeps its cache the call returns the stored result, and after
\* a restart or "Clear cache" the body runs again and draws its hours anew.
\* uncached is what the same run returns with the three decorators removed:
\* the body runs on every call
Reload ==
    /\ pc \in {"warned", "segmented", "finished", "crashed"}
    /\ \E cached \in BOOLEAN :
       \E uber \in [1..(IF UberNeedsRandomHour(raw.Uber)
                        THEN Len(UberPromoteHeader(raw.Uber).rows)
                        ELSE 0) -> HourSample] :
       \E grubhub \in [1..(IF GrubhubNeedsRandomHour(raw.Grubhub)
                           THEN Len(raw.Grubhub.rows)
                           ELSE 0) -> HourSample] :
          LET body == [p \in Platforms |->
                         IF p \notin supplied THEN NotCalled
                         ELSE IF p = "DoorDash"
                              THEN Called(process_doordash_data(raw.DoorDash))
                         ELSE IF p = "Uber"
                              THEN Called(process_uber_data(raw.Uber, uber))
                         ELSE Called(process_grubhub_data(raw.Grubhub, grubhub))]
          IN  /\ reloaded' = [p \in Platforms |->
                                 IF p \in supplied /\ cached THEN returned[p]
                                 ELSE body[p]]
              /\ uncached' = body
    /\ pc' = "reloaded"
    /\ UNCHANGED <<tab7, lookup>>
    /\ UNCHANGED <<supplied, raw, returned, all_data, errors, date_range, df,
                   completed_df, total_revenue, total_orders, revenue_growth,
                   order_growth, rfm_data, crash_site>>

Next ==
    \/ LoadDoorDash
    \/ LoadUber
    \/ LoadGrubhub
    \/ Combine
    \/ Overview
    \/ GrowthMetrics
    \/ RFMAnalysis

Spec == Init /\ [][Next]_vars

\* the session followed by a later run of its loads
NextReload ==
    \/ Next
    \/ Reload

SpecReload == Init /\ [][NextReload]_vars

\* a session over two months: the three uploads carry every column, and
\* their orders lie up to 31 days before the latest one
InitLong ==
    /\ pc = "doordash"
    /\ supplied = Platforms
    /\ raw \in [DoorDash : LongDoorDash, Uber : LongUber, Grubhub : LongGrubhub]
    /\ date_range \in {<<>>} \cup DateRanges
    /\ NothingComputed

\* the session followed through its last tab
NextLong ==
    \/ Next
    \/ RetentionAnalysis
    \/ ChurnAnalysis
    \/ LifecycleStages

SpecLong == InitLong /\ [][NextLong]_vars

\* the two row-wise functions on every input of the bounds: the lifecycle
\* stage of one line of order_frequency, the segment of one RFM score
InitFunctions ==
    /\ supplied = {}
    /\ raw = [q \in Platforms |-> NoTable]
    /\ date_range = <<>>
    /\ returned = [p \in Platforms |-> NotCalled]
    /\ all_data = <<>>
    /\ errors = <<>>
    /\ df = EmptyDataFrame
    /\ completed_df = <<>>
    /\ total_revenue = 0
    /\ total_orders = 0
    /\ revenue_growth = ZeroGrowth
    /\ order_growth = ZeroGrowth
    /\ rfm_data = <<>>
    /\ reloaded = [p \in Platforms |-> NotCalled]
    /\ crash_site = ""
    /\ cohort_data = {}
    /\ monthly_active = {}
    /\ churn_by_platform = <<>>
    /\ uncached = [p \in Platforms |-> NotCalled]
    /\ \/ /\ pc = "lifecycle"
          /\ lookup = [score |-> 0, segment |-> ""]
          /\ \E n \in 1..MaxOrderCount, days \in 0..MaxDays :
                order_frequency =
                   <<[Customer_ID |-> "0",
                      Platform |-> "DoorDash",
                      First_Order |-> MaxDays - days,
                      Last_Order |-> MaxDays - days,
                      Order_Count |-> n,
                      Days_Since_Last |-> days,
                      Is_Churned |-> IsChurned(days)]>>
       \/ /\ pc = "lookup"
          /\ order_frequency = <<>>
          /\ \E score \in RfmCodes : lookup = [score |-> score, segment |-> ""]

NextFunctions ==
    \/ LifecycleStages
    \/ SegmentLookup

SpecFunctions == InitFunctions /\ [][NextFunctions]_vars

-----------------------------------------------------------------------------
(* Vocabulary of the properties *)

\* the header each normalizer reads the date from
DateColumnOf(platform) ==
    CASE platform = "DoorDash" -> "zh:timestamp_local_date"
      [] platform = "Uber" -> "zh:order_date"
      [] OTHER -> "transaction_date"

\* the header each normalizer reads the revenue from
RevenueColumnOf(platform) ==
    CASE platform = "DoorDash" -> "zh:net_total"
      [] platform = "Uber" -> "zh:total_revenue"
      [] OTHER -> "merchant_net_total"

\* the headers of the optional amounts (subtotal, tax, tips, commission,
\* marketing fee) of each platform, in that order
OptionalColumnsOf(platform) ==
    CASE platform = "DoorDash" ->
            <<"zh:subtotal", "zh:tax_subtotal", "zh:staff_tips",
              "zh:commission", "zh:marketing_fee">>
      [] platform = "Uber" ->
            <<"zh:sales_excl_tax", "zh:sales_tax", "zh:tip",
              "zh:platform_service_fee", "zh:marketing_adjustment">>
      [] OTHER ->
            <<"subtotal", "subtotal_sales_tax", "tip", "commission",
              "merchant_funded_promotion">>

\* the header each normalizer reads the status from
StatusColumnOf(platform) ==
    CASE platform = "DoorDash" -> "zh:final_order_status"
      [] platform = "Uber" -> "zh:order_status"
      [] OTHER -> "transaction_type"

\* the header each normalizer reads the time of day from
TimeColumnOf(platform) ==
    CASE platform = "DoorDash" -> "zh:timestamp_local_time"
      [] platform = "Uber" -> "zh:order_accept_time"
      [] OTHER -> "transaction_time_local"

\* the words Is_Completed is matched against (lines 81, 158, 203)
CompletedWords(platform) ==
    CASE platform = "DoorDash" -> {"delivered"}
      [] platform = "Uber" -> {"zh:completed", "completed"}
      [] OTHER -> {"prepaid", "order"}

\* the words Is_Cancelled is matched against (lines 82, 159); line 204 has
\* none for Grubhub
CancelledWords(platform) ==
    CASE platform = "DoorDash" -> {"cancelled"}
      [] platform = "Uber" -> {"zh:cancelled", "cancelled"}
      [] OTHER -> {}

\* the header each normalizer reads the order id from (lines 89, 122, 211)
OrderIdColumnOf(platform) ==
    CASE platform = "DoorDash" -> "zh:doordash_order_id"
      [] platform = "Uber" -> "zh:order_id"
      [] OTHER -> "order_number"

\* the full header of a platform's export
FullColumnsOf(platform) ==
    CASE platform = "DoorDash" -> DoorDashColumns
      [] platform = "Uber" -> UberColumns
      [] OTHER -> GrubhubColumns

\* the validation filter of a platform's normalizer
validate(platform, records) ==
    CASE platform = "DoorDash" -> DoorDashClean(records)
      [] platform = "Uber" -> UberClean(records)
      [] OTHER -> GrubhubClean(records)

\* the five optional amounts of a record, in the order of OptionalColumnsOf
Components(r) == <<r.Subtotal, r.Tax, r.Tips, r.Commission, r.Marketing_Fee>>

\* the rows of a table whose date cell (and revenue cell) parse
InputRowsWith(platform, needRevenue) ==
    LET t == raw[platform]
    IN  FilterSeq(t.rows, [i \in 1..Len(t.rows) |->
            /\ notna(to_datetime(Cell(t.columns, t.rows[i], DateColumnOf(platform))))
            /\ needRevenue =>
                 notna(to_numeric(Cell(t.columns, t.rows[i],
                                       RevenueColumnOf(platform))))])

\* the sum of the revenue cells of a platform's uploaded table
InputRevenue(platform) ==
    LET t == raw[platform]
    IN  SumNum([i \in 1..Len(t.rows) |->
                  to_numeric(Cell(t.columns, t.rows[i], RevenueColumnOf(platform)))])

\* the rows of a frame that carry a platform's tag
RowsTagged(rows, platform) ==
    FilterSeq(rows, [i \in 1..Len(rows) |-> rows[i].Platform = platform])

-----------------------------------------------------------------------------
(* C1 *)

\* C1: a normalizer called on a table without rows returns a result without
\* rows, and no exception reaches the caller.
C1_EmptyTableEmptyResult ==
    \A p \in Platforms :
        (returned[p].called /\ raw[p].rows = <<>>) =>
            /\ returned[p].frame.rows = <<>>
            /\ ~returned[p].raised
            /\ pc # "crashed" \/ crash_site # p

\* a normalizer has met a table without rows that made its body fail
C1_Witness ==
    \E p \in Platforms :
        /\ returned[p].called
        /\ raw[p].rows = <<>>
        /\ returned[p].error # <<>>

-----------------------------------------------------------------------------
(* C2 *)

\* C2: no record a normalizer returns has a null date or a null revenue.
C2_NoNullDateOrRevenue ==
    \A p \in Platforms :
        returned[p].called =>
            \A i \in 1..Len(returned[p].frame.rows) :
                /\ notna(returned[p].frame.rows[i].Date)
                /\ notna(returned[p].frame.rows[i].Revenue)

-----------------------------------------------------------------------------
(* C3 *)

\* C3: the validation filter applied to the records a normalizer returned
\* (the filter's own output) gives the same records in the same order.
C3_ValidateIdempotent ==
    \A p \in Platforms :
        returned[p].called =>
            validate(p, returned[p].frame.rows) = returned[p].frame.rows

\* a normalizer returned a record after its filter removed another row
C3_Witness ==
    \E p \in Platforms :
        /\ returned[p].called
        /\ Len(raw[p].rows) = 2
        /\ Len(returned[p].frame.rows) = 1

-----------------------------------------------------------------------------
(* C4 *)

\* C4: when the Uber table has the date header and the revenue header, the
\* records carry the dates and revenues of those columns, also when the
\* positional fallbacks (column 8; 7th column from the end) exist and hold
\* something else.
C4_NamedColumnWins ==
    LET t == UberPromoteHeader(raw.Uber)
        f == UberFieldNames(t.columns)
        kept == FilterSeq(t.rows, [i \in 1..Len(t.rows) |->
                   notna(to_datetime(Cell(t.columns, t.rows[i], f.date_col)))])
    IN  (/\ returned.Uber.called
         /\ f.date_col \in Range(t.columns)
         /\ f.revenue_col \in Range(t.columns)) =>
            /\ returned.Uber.error = <<>>
            /\ Len(returned.Uber.frame.rows) = Len(kept)
            /\ \A i \in 1..Len(kept) :
                 /\ returned.Uber.frame.rows[i].Date =
                      to_datetime(Cell(t.columns, kept[i], f.date_col))
                 /\ returned.Uber.frame.rows[i].Revenue =
                      to_numeric(Cell(t.columns, kept[i], f.revenue_col))

\* an Uber table with both headers, whose column 8 is not the date column
\* and whose 7th column from the end is not the revenue column, gave records
C4_Witness ==
    LET t == raw.Uber
    IN  /\ returned.Uber.called
        /\ "zh:order_date" \in Range(t.columns)
        /\ "zh:total_revenue" \in Range(t.columns)
        /\ Len(t.columns) >= UberDateIloc + 1
        /\ ColIndex(t.columns, "zh:order_date") # UberDateIloc + 1
        /\ ColIndex(t.columns, "zh:total_revenue") #
              Len(t.columns) + 2 - UberRevenueFromEnd + 1
        /\ Len(returned.Uber.frame.rows) = 2

-----------------------------------------------------------------------------
(* C5 *)

\* C5: a Grubhub date column filled with the placeholder is repaired: the
\* normalizer yields as many dates as the table has rows, none of them null.
C5_PlaceholderDatesRepaired ==
    LET t == raw.Grubhub
    IN  (/\ returned.Grubhub.called
         /\ t.columns = GrubhubColumns
         /\ t.rows # <<>>
         /\ \A i \in 1..Len(t.rows) :
               Cell(t.columns, t.rows[i], "transaction_date") = "########") =>
            /\ Len(returned.Grubhub.frame.rows) = Len(t.rows)
            /\ \A i \in 1..Len(returned.Grubhub.frame.rows) :
                  notna(returned.Grubhub.frame.rows[i].Date)

-----------------------------------------------------------------------------
(* C6 *)

\* C6: a platform whose date column is placeholder-filled throughout keeps
\* every record, with hour and day of week populated; it does not end with
\* zero records.
C6_CorruptedPlatformKept ==
    \A p \in Platforms :
        LET t == raw[p]
        IN  (/\ returned[p].called
             /\ t.columns = FullColumnsOf(p)
             /\ t.rows # <<>>
             /\ \A i \in 1..Len(t.rows) :
                   Cell(t.columns, t.rows[i], DateColumnOf(p)) = "########") =>
                /\ returned[p].frame.rows # <<>>
                /\ Len(returned[p].frame.rows) = Len(t.rows)
                /\ \A i \in 1..Len(returned[p].frame.rows) :
                      /\ notna(returned[p].frame.rows[i].Hour)
                      /\ notna(returned[p].frame.rows[i].DayOfWeek)

-----------------------------------------------------------------------------
(* C7 *)

\* every platform uploaded a full table of exactly two rows, all with a date
\* and a revenue that parse, and all three normalizers have run
C7_Scenario ==
    /\ pc \notin {"doordash", "uber", "grubhub"}
    /\ \A p \in Platforms :
          /\ p \in supplied
          /\ raw[p].columns = FullColumnsOf(p)
          /\ Len(raw[p].rows) = 2
          /\ Len(InputRowsWith(p, TRUE)) = 2

\* C7: with three tables of two valid rows each, the unified dataset has six
\* rows, two per platform tag, and its revenue total is the sum of the six
\* input revenues; without a date filter it is the dataset main() goes on with.
C7_SixRowsTwoPerPlatform ==
    C7_Scenario =>
        LET u == unify(all_data)
        IN  /\ Len(u.rows) = 6
            /\ \A p \in Platforms : Len(RowsTagged(u.rows, p)) = 2
            /\ SumNum([i \in 1..Len(u.rows) |-> u.rows[i].Revenue]) =
                  InputRevenue("DoorDash") + InputRevenue("Uber")
                  + InputRevenue("Grubhub")
            /\ (date_range = <<>> /\ pc \in {"overview", "metrics", "done"}) =>
                  df = u

\* the scenario ran to the end without a date filter
C7_Witness == C7_Scenario /\ pc = "done" /\ date_range = <<>>

-----------------------------------------------------------------------------
(* C8 *)

\* C8 as stated: on every platform a table without a revenue column (its
\* date column present, so that revenue is the one field missing) gives an
\* empty result and a diagnostic naming the platform and the revenue field.
C8_MissingRevenueDiagnosed ==
    \A p \in Platforms :
        (/\ returned[p].called
         /\ RevenueColumns \cap Range(raw[p].columns) = {}
         /\ DateColumnOf(p) \in Range(raw[p].columns)) =>
            /\ returned[p].frame.rows = <<>>
            /\ \E i \in 1..Len(returned[p].error) :
                  /\ returned[p].error[i].platform = p
                  /\ returned[p].error[i].detail = RevenueColumnOf(p)

\* What the code does instead, for reference: without a revenue column,
\* DoorDash and Grubhub return the empty frame and one diagnostic naming the
\* platform and the first missing column they read; Uber reads the revenue
\* from the 7th column from the end of the frame extended by Date and
\* Platform when the date resolves and the table has 5 columns or more, and
\* otherwise returns the empty frame and one diagnostic naming the platform
\* and an out-of-bounds index, not the field.
C8_MissingRevenueByPlatform ==
    \A p \in Platforms :
        (returned[p].called /\ RevenueColumns \cap Range(raw[p].columns) = {}) =>
            IF p # "Uber"
            THEN /\ returned[p].frame = EmptyDataFrame
                 /\ returned[p].error =
                      <<[platform |-> p, kind |-> "KeyError",
                         detail |-> IF DateColumnOf(p) \in Range(raw[p].columns)
                                    THEN RevenueColumnOf(p)
                                    ELSE DateColumnOf(p)]>>
            ELSE LET t == UberPromoteHeader(raw.Uber)
                     n == Len(t.columns)
                     named == UberFieldNames(t.columns).date_col
                     datePos == IF named \in Range(t.columns)
                                THEN ColIndex(t.columns, named) ELSE 9
                     kept == FilterSeq(t.rows, [i \in 1..Len(t.rows) |->
                                notna(to_datetime(t.rows[i][datePos]))])
                 IN  IF (named \in Range(t.columns) \/ n >= 9) /\ n >= 5
                     THEN /\ returned.Uber.error = <<>>
                          /\ returned.Uber.frame.canonical
                          /\ Len(returned.Uber.frame.rows) = Len(kept)
                          /\ \A i \in 1..Len(kept) :
                                returned.Uber.frame.rows[i].Revenue =
                                   to_numeric(kept[i][n - 4])
                     ELSE /\ returned.Uber.frame = EmptyDataFrame
                          /\ returned.Uber.error =
                               <<[platform |-> "Uber", kind |-> "IndexError",
                                  detail |-> "single positional indexer is out-of-bounds"]>>

\* an Uber table without a revenue column gave records all the same
C8_SilentFallbackReached ==
    /\ returned.Uber.called
    /\ RevenueColumns \cap Range(raw.Uber.columns) = {}
    /\ Len(returned.Uber.frame.rows) = 2
    /\ returned.Uber.error = <<>>

-----------------------------------------------------------------------------
(* C9 *)

\* C9: a table that has its date, revenue, status and time columns and lacks
\* an optional amount still gives its valid records, the missing amount 0.
C9_MissingOptionalDefaultsToZero ==
    \A p \in Platforms :
        LET t == raw[p]
            opt == OptionalColumnsOf(p)
            missing == {k \in 1..Len(opt) : opt[k] \notin Range(t.columns)}
        IN  (/\ returned[p].called
             /\ Range(FullColumnsOf(p)) \ Range(opt) \subseteq Range(t.columns)
             /\ missing # {}) =>
                /\ returned[p].error = <<>>
                /\ Len(returned[p].frame.rows) = Len(InputRowsWith(p, p = "DoorDash"))
                /\ \A i \in 1..Len(returned[p].frame.rows) : \A k \in missing :
                      Components(returned[p].frame.rows[i])[k] = <<0>>

-----------------------------------------------------------------------------
(* C10 *)

\* the growth computation of lines 410-426 has been run
C10_GrowthRun == pc = "done" \/ (pc = "crashed" /\ crash_site = "growth")

\* C10: when the completed orders span fewer than two months (one month, or
\* no completed order at all), the growth computation ends without an error
\* and both growth figures are 0.
C10_FewerThanTwoPeriods ==
    (C10_GrowthRun /\ Len(MonthKeys(completed_df)) < 2) =>
        /\ pc = "done"
        /\ IsZero(revenue_growth)
        /\ IsZero(order_growth)

\* the growth of completed orders that all fall in one month was computed
C10_Witness ==
    /\ C10_GrowthRun
    /\ Len(completed_df) >= 2
    /\ Len(MonthKeys(completed_df)) = 1

-----------------------------------------------------------------------------
(* C11 *)

\* the RFM scoring of line 998 has been run
C11_RfmRun == pc = "segmented" \/ (pc = "crashed" /\ crash_site = "rfm")

\* C11: when the completed orders have fewer than 3 distinct grouping keys
\* (Order_ID values), RFM scoring ends without an error and gives every key
\* the segment "Insufficient Data".
C11_FewKeysInsufficientData ==
    (C11_RfmRun /\ Len(GroupKeys(completed_df)) < 3) =>
        /\ pc = "segmented"
        /\ Len(rfm_data) = Len(GroupKeys(completed_df))
        /\ \A k \in 1..Len(rfm_data) : rfm_data[k].Segment = "Insufficient Data"

-----------------------------------------------------------------------------
(* C12 *)

\* C12: on every platform, a record whose status text has no word of the
\* completed vocabulary and none of the cancelled vocabulary has
\* Is_Completed = TRUE (tables with the full header whose rows all pass the
\* filter, so that record i is row i).
C12_UnmatchedStatusCompleted ==
    \A p \in Platforms :
        LET t == raw[p]
        IN  (/\ returned[p].called
             /\ t.columns = FullColumnsOf(p)
             /\ Len(InputRowsWith(p, p = "DoorDash")) = Len(t.rows)) =>
                /\ Len(returned[p].frame.rows) = Len(t.rows)
                /\ \A i \in 1..Len(t.rows) :
                      Tokens(Cell(t.columns, t.rows[i], StatusColumnOf(p)))
                         \cap (CompletedWords(p) \cup CancelledWords(p)) = {}
                      => returned[p].frame.rows[i].Is_Completed

-----------------------------------------------------------------------------
(* C13 *)

\* C13: on every platform, a table that lacks only its status column still
\* gives its valid records, each with Is_Completed = TRUE and
\* Is_Cancelled = FALSE.
C13_NoStatusColumnAllCompleted ==
    \A p \in Platforms :
        LET t == raw[p]
        IN  (/\ returned[p].called
             /\ t.columns = Without(FullColumnsOf(p), StatusColumnOf(p))
             /\ InputRowsWith(p, p = "DoorDash") # <<>>) =>
                /\ returned[p].error = <<>>
                /\ Len(returned[p].frame.rows) =
                      Len(InputRowsWith(p, p = "DoorDash"))
                /\ \A i \in 1..Len(returned[p].frame.rows) :
                      /\ returned[p].frame.rows[i].Is_Completed
                      /\ ~returned[p].frame.rows[i].Is_Cancelled

-----------------------------------------------------------------------------
(* C14 *)

\* the three loads of lines 339-367 are over
C14_Loaded == pc \notin {"doordash", "uber", "grubhub"}

\* the records the three normalizers returned, DoorDash first, Grubhub last
C14_Parts ==
    returned.DoorDash.frame.rows \o returned.Uber.frame.rows
    \o returned.Grubhub.frame.rows

\* C14: the unified dataset is the records of DoorDash, then Uber, then
\* Grubhub: as many rows as the three lists together, none dropped for an
\* order id another row has, and under each platform tag exactly the records
\* that platform's normalizer returned; without a date filter it is the
\* dataset main() goes on with.
C14_OrderedConcatenation ==
    (C14_Loaded /\ pc # "crashed" /\ all_data # <<>>) =>
        LET u == unify(all_data)
        IN  /\ u.rows = C14_Parts
            /\ Len(u.rows) = Len(returned.DoorDash.frame.rows)
                             + Len(returned.Uber.frame.rows)
                             + Len(returned.Grubhub.frame.rows)
            /\ \A p \in Platforms :
                  RowsTagged(u.rows, p) = returned[p].frame.rows
            /\ (date_range = <<>> /\ pc # "combine") => df.rows = C14_Parts

\* three platforms gave records, two of different platforms share an order
\* id, and the session went on with the unified dataset
C14_Witness ==
    /\ pc = "done"
    /\ date_range = <<>>
    /\ \A p \in Platforms : returned[p].frame.rows # <<>>
    /\ \E i, j \in 1..Len(df.rows) :
          /\ df.rows[i].Platform # df.rows[j].Platform
          /\ df.rows[i].Order_ID = df.rows[j].Order_ID

-----------------------------------------------------------------------------
(* C15 *)

\* the normalizer finds no column for the platform's date or revenue: the
\* named column is absent and, on Uber, the table is too short for the
\* positional fallback (column 8; 7th from the end of the frame with Date and
\* Platform added)
C15_LacksRequiredField(p) ==
    LET t == IF p = "Uber" THEN UberPromoteHeader(raw.Uber) ELSE raw[p]
        n == Len(t.columns)
    IN  IF p = "Uber"
        THEN \/ /\ UberFieldNames(t.columns).date_col \notin Range(t.columns)
                /\ n < UberDateIloc + 1
             \/ /\ "zh:total_revenue" \notin Range(t.columns)
                /\ n + 2 < UberRevenueFromEnd
        ELSE \/ DateColumnOf(p) \notin Range(t.columns)
             \/ RevenueColumnOf(p) \notin Range(t.columns)

\* the completed records of all the normalizers' results
C15_CompletedParts == CompletedOnly(C14_Parts)

-----------------------------------------------------------------------------
(* C16 *)

\* C16: whatever the uploaded table (columns missing, too few columns for a
\* positional fallback, cells that do not parse), the normalizer returns a
\* value: either the frame of its records and no error, or the empty frame
\* and one reported error; no exception reaches main().
C16_NoExceptionEscapes ==
    \A p \in Platforms :
        returned[p].called =>
            /\ ~returned[p].raised
            /\ pc = "crashed" => crash_site # p
            /\ \/ returned[p].frame.canonical /\ returned[p].error = <<>>
               \/ /\ returned[p].frame = EmptyDataFrame
                  /\ Len(returned[p].error) = 1
                  /\ returned[p].error[1].platform = p

\* an Uber table with rows, too short for the positional fallback of the
\* revenue, went through the normalizer, which reported an IndexError
C16_Witness ==
    /\ returned.Uber.called
    /\ Len(raw.Uber.rows) = 2
    /\ "zh:total_revenue" \notin Range(raw.Uber.columns)
    /\ Len(raw.Uber.columns) + 2 < UberRevenueFromEnd
    /\ Len(returned.Uber.error) = 1
    /\ returned.Uber.error[1].kind = "IndexError"

-----------------------------------------------------------------------------
(* C17 *)

\* C17: an Uber table under the prose header with n > 1 rows has row 0
\* promoted to the header and only row 0 removed: n - 1 data rows, resolved
\* against the names of row 0, of which the normalizer returns those whose
\* date parses.
C17_OnlyRowZeroRemoved ==
    LET t == raw.Uber
        promoted == UberPromoteHeader(t)
        data == Tail(t.rows)
    IN  (/\ returned.Uber.called
         /\ t.columns = UberProseColumns
         /\ Len(t.rows) > 1) =>
            /\ promoted.columns = t.rows[1]
            /\ promoted.rows = data
            /\ Len(promoted.rows) = Len(t.rows) - 1
            /\ Len(returned.Uber.frame.rows) =
                  Len(FilterSeq(data, [i \in 1..Len(data) |->
                         notna(to_datetime(Cell(t.rows[1], data[i],
                                                "zh:order_date")))]))

-----------------------------------------------------------------------------
(* C18 *)

\* C18: in the records a normalizer returns, Hour, DayOfWeek and Month are
\* functions of Date: two records with the same Date agree on all three.
C18_TimePartsFunctionOfDate ==
    \A p \in Platforms :
        returned[p].called =>
            \A i, j \in 1..Len(returned[p].frame.rows) :
                LET a == returned[p].frame.rows[i]
                    b == returned[p].frame.rows[j]
                IN  a.Date = b.Date =>
                       /\ a.Hour = b.Hour
                       /\ a.DayOfWeek = b.DayOfWeek
                       /\ a.Month = b.Month

-----------------------------------------------------------------------------
(* C19 *)

\* C19: a second run of a normalizer on the same uploaded table returns the
\* same records, field by field, and the same errors, also for a table that
\* has no time-of-day column.
C19_ReloadIdentical ==
    pc = "reloaded" =>
        \A p \in supplied :
            /\ reloaded[p].frame = returned[p].frame
            /\ reloaded[p].error = returned[p].error

-----------------------------------------------------------------------------
(* C20 *)

\* C20: in the unified dataset, two records of different platforms whose
\* tables both lack the order-id column (so that both ids are synthesized)
\* never have the same Order_ID.
C20_SynthesizedIdsDistinct ==
    (C14_Loaded /\ all_data # <<>>) =>
        LET u == unify(all_data).rows
        IN  \A i, j \in 1..Len(u) :
               (/\ u[i].Platform # u[j].Platform
                /\ OrderIdColumnOf(u[i].Platform)
                      \notin Range(raw[u[i].Platform].columns)
                /\ OrderIdColumnOf(u[j].Platform)
                      \notin Range(raw[u[j].Platform].columns)) =>
                   u[i].Order_ID # u[j].Order_ID

-----------------------------------------------------------------------------
(* C21 *)

\* the (Order_ID, Platform) pairs of the completed orders
C21_Keys ==
    {<<completed_df[i].Order_ID, completed_df[i].Platform>> :
        i \in 1..Len(completed_df)}

\* the days from the last order of a pair to the latest order of the dataset
C21_DaysSinceLast(key) ==
    LET all == {completed_df[i].Date[1] : i \in 1..Len(completed_df)}
        own == {completed_df[i].Date[1] : i \in {j \in 1..Len(completed_df) :
                   /\ completed_df[j].Order_ID = key[1]
                   /\ completed_df[j].Platform = key[2]}}
        latest == CHOOSE d \in all : \A e \in all : e <= d
        last == CHOOSE d \in own : \A e \in own : e <= d
    IN  latest - last

\* C21: once the churn analysis has run, every (Order_ID, Platform) pair of
\* the completed orders has one line, the line is marked churned exactly when
\* the days between the pair's last order and the latest order of the dataset
\* are more than 30 (a pair at exactly 30 days is not churned), and the churn
\* rate of a platform is 100 times the churned pairs over the pairs of it.
C21_ChurnedBeyondThreshold ==
    pc \in {"lifecycle", "finished"} =>
        /\ {<<order_frequency[k].Customer_ID, order_frequency[k].Platform>> :
               k \in 1..Len(order_frequency)} = C21_Keys
        /\ Len(order_frequency) = Cardinality(C21_Keys)
        /\ \A k \in 1..Len(order_frequency) :
              LET days == C21_DaysSinceLast(<<order_frequency[k].Customer_ID,
                                              order_frequency[k].Platform>>)
              IN  /\ order_frequency[k].Is_Churned = (days > 30)
                  /\ days = 30 => ~order_frequency[k].Is_Churned
        /\ DOMAIN churn_by_platform = {key[2] : key \in C21_Keys}
        /\ \A p \in DOMAIN churn_by_platform :
              LET keys == {key \in C21_Keys : key[2] = p}
                  churned == {key \in keys : C21_DaysSinceLast(key) > 30}
              IN  /\ churn_by_platform[p].den # 0
                  /\ churn_by_platform[p].num * Cardinality(keys)
                        = 100 * Cardinality(churned) * churn_by_platform[p].den

\* C21 witness: DoorDash has one pair 31 days and one pair exactly 30 days
\* behind the latest order; the first is churned, the second is not, and the
\* platform's rate is one half.
C21_Witness ==
    /\ pc = "finished"
    /\ \E i, j \in 1..Len(order_frequency) :
          /\ order_frequency[i].Platform = "DoorDash"
          /\ order_frequency[i].Days_Since_Last = 31
          /\ order_frequency[i].Is_Churned
          /\ order_frequency[j].Platform = "DoorDash"
          /\ order_frequency[j].Days_Since_Last = 30
          /\ ~order_frequency[j].Is_Churned
    /\ churn_by_platform["DoorDash"] = [num |-> 100, den |-> 2]

-----------------------------------------------------------------------------
(* C22 *)

\* C22: a step that computes metrics (the growth rates, the RFM scores, the
\* retention metrics) leaves the dataset it reads as it was: df and
\* completed_df have the same rows, columns and values after the step.
C22_MetricsLeaveDatasetUnchanged ==
    [][(pc \in {"metrics", "done", "segmented"}) =>
          (df' = df /\ completed_df' = completed_df)]_vars

-----------------------------------------------------------------------------
(* C23 *)

\* every Order_ID of the completed orders belongs to one platform
C23_KeysOfOnePlatform ==
    \A i, j \in 1..Len(completed_df) :
        completed_df[i].Order_ID = completed_df[j].Order_ID =>
            completed_df[i].Platform = completed_df[j].Platform

\* the month of the earliest order of an Order_ID
C23_FirstPeriod(key) ==
    LET own == {completed_df[i].Date[1] : i \in {j \in 1..Len(completed_df) :
                   completed_df[j].Order_ID = key}}
    IN  to_period_M(<<CHOOSE d \in own : \A e \in own : d <= e>>)

\* the cohorts by the earliest order: per month and platform, the number of
\* Order_IDs of the platform whose earliest order lies in the month
C23_Cohorts ==
    LET keys == {<<completed_df[i].Order_ID, completed_df[i].Platform>> :
                    i \in 1..Len(completed_df)}
        same(key) == {other \in keys :
                         /\ other[2] = key[2]
                         /\ C23_FirstPeriod(other[1]) = C23_FirstPeriod(key[1])}
    IN  {[Cohort |-> C23_FirstPeriod(key[1]),
          Platform |-> key[2],
          Customers |-> Cardinality(same(key))] : key \in keys}

\* C23: once the retention metrics are computed, and when every Order_ID of
\* the completed orders belongs to one platform, the cohort table is the
\* count of Order_IDs per month of their earliest order and platform,
\* whatever the order of the rows.
C23_CohortOfEarliestOrder ==
    (pc \in {"churn", "lifecycle", "finished"} /\ C23_KeysOfOnePlatform) =>
        cohort_data = C23_Cohorts

-----------------------------------------------------------------------------
(* C24 *)

\* the header of the platform's table names its date and revenue columns
C24_NamedColumns(p) ==
    /\ DateColumnOf(p) \in Range(raw[p].columns)
    /\ RevenueColumnOf(p) \in Range(raw[p].columns)

\* the refunds of a platform's table: date and revenue of the rows whose
\* date parses and whose revenue is a negative number, in the table's order,
\* those within the date range when one is set
C24_Refunds(p, range) ==
    LET t == raw[p]
        date(i) == to_datetime(Cell(t.columns, t.rows[i], DateColumnOf(p)))
        revenue(i) == to_numeric(Cell(t.columns, t.rows[i], RevenueColumnOf(p)))
        kept == FilterSeq([i \in 1..Len(t.rows) |-> i],
                          [i \in 1..Len(t.rows) |->
                             /\ notna(date(i))
                             /\ notna(revenue(i))
                             /\ revenue(i)[1] < 0
                             /\ Len(range) = 2 =>
                                   (date(i)[1] >= range[1] /\ date(i)[1] <= range[2])])
    IN  [k \in 1..Len(kept) |-> [Date |-> date(kept[k]), Revenue |-> revenue(kept[k])]]

\* date and revenue of the records of a platform with a negative revenue
C24_RefundRecords(rows, p) ==
    LET kept == FilterSeq(rows, [i \in 1..Len(rows) |->
                    /\ rows[i].Platform = p
                    /\ notna(rows[i].Revenue)
                    /\ rows[i].Revenue[1] < 0])
    IN  [k \in 1..Len(kept) |-> [Date |-> kept[k].Date, Revenue |-> kept[k].Revenue]]

\* C24: when a platform's table names its date and revenue columns and is
\* normalized without an error, every row with a valid date and a negative
\* revenue is among the records the normalizer returned when the loads are
\* over, and is in the unified dataset when it is formed (when a date range
\* is set, if its date lies within).
C24_RefundsKept ==
    pc \in {"combine", "overview"} =>
        \A p \in Platforms :
            (returned[p].called /\ returned[p].error = <<>>
                                /\ C24_NamedColumns(p)) =>
                IF pc = "combine"
                THEN C24_RefundRecords(returned[p].frame.rows, p)
                        = C24_Refunds(p, <<>>)
                ELSE C24_RefundRecords(df.rows, p) = C24_Refunds(p, date_range)

\* C24 witness: a DoorDash row with a valid date and a negative revenue was
\* uploaded, and the record is in the unified dataset just formed.
C24_Witness ==
    /\ pc = "overview"
    /\ C24_NamedColumns("DoorDash")
    /\ C24_Refunds("DoorDash", <<>>) # <<>>
    /\ \E i \in 1..Len(df.rows) :
          /\ df.rows[i].Platform = "DoorDash"
          /\ notna(df.rows[i].Date)
          /\ df.rows[i].Revenue[1] < 0

-----------------------------------------------------------------------------
(* C25 *)

\* C25: after a second recompute cycle over the same uploaded tables, the
\* records each normalizer returned with the memoization cache are the
\* records the same cycle returns with the cache removed.
C25_CacheTransparent ==
    pc = "reloaded" =>
        \A p \in supplied : reloaded[p].frame = uncached[p].frame

-----------------------------------------------------------------------------
(* C26 *)

\* C26: no record of Uber or Grubhub with a revenue of exactly zero is among
\* the records its normalizer returns, nor in the combined dataset.
C26_NoZeroRevenue ==
    \A p \in {"Uber", "Grubhub"} :
        /\ \A i \in 1..Len(returned[p].frame.rows) :
              returned[p].frame.rows[i].Revenue # <<0>>
        /\ \A i \in 1..Len(df.rows) :
              df.rows[i].Platform = p => df.rows[i].Revenue # <<0>>

-----------------------------------------------------------------------------
(* C27 *)

\* C27: when at least one table is uploaded and every uploaded table fails
\* its normalization (an error is reported and no record returned), the
\* session does not end by an exception: it never reads a canonical column
\* from a dataset without columns.
C27_AllFailedNoException ==
    (/\ supplied # {}
     /\ C14_Loaded
     /\ \A p \in supplied :
           /\ returned[p].called
           /\ returned[p].error # <<>>
           /\ returned[p].frame.rows = <<>>) =>
        pc # "crashed"

-----------------------------------------------------------------------------
(* C28 *)

\* C28: when the completed orders span at least two months, the revenue of
\* the month before the last, which the revenue growth divides by, is not
\* zero.
C28_GrowthDenominatorNonZero ==
    (pc = "done" /\ Len(MonthKeys(completed_df)) >= 2) =>
        revenue_growth.den # 0

-----------------------------------------------------------------------------
(* C29 *)

\* C29: once the lifecycle stages are assigned, a line of order_frequency is
\* marked churned (more than 30 days since the last order) if and only if
\* its stage is 'At Risk' or 'Churned', whatever its order count.
C29_ChurnedIffAtRiskOrChurned ==
    pc = "finished" =>
        \A k \in 1..Len(order_frequency) :
            /\ order_frequency[k].Is_Churned = (order_frequency[k].Days_Since_Last > 30)
            /\ order_frequency[k].Is_Churned
                  = (order_frequency[k].Lifecycle_Stage \in {"At Risk", "Churned"})

\* C29 witness: a line with more than 5 orders and 31 days since the last
\* one is churned and 'At Risk', not 'Loyal'.
C29_Witness ==
    /\ pc = "finished"
    /\ \E k \in 1..Len(order_frequency) :
          /\ order_frequency[k].Order_Count > 5
          /\ order_frequency[k].Days_Since_Last = 31
          /\ order_frequency[k].Is_Churned
          /\ order_frequency[k].Lifecycle_Stage = "At Risk"

-----------------------------------------------------------------------------
(* C30 *)

\* the names of the branches of segment_customers whose list holds the score
C30_NamesOf(score) ==
    {SegmentTable[b].name : b \in {c \in 1..Len(SegmentTable) :
                                      score \in SegmentTable[c].codes}}

\* C30: no code is in the lists of two branches of segment_customers, and
\* for every score of three digits in 1..4 the lookup returns the name of
\* the one branch whose list holds the score, or 'Other' when no list does.
C30_LookupTotalUnambiguous ==
    /\ \A a, b \in 1..Len(SegmentTable) :
          a # b => SegmentTable[a].codes \cap SegmentTable[b].codes = {}
    /\ pc = "looked" =>
          /\ lookup.score \in RfmCodes
          /\ Cardinality(C30_NamesOf(lookup.score)) <= 1
          /\ IF C30_NamesOf(lookup.score) = {}
             THEN lookup.segment = "Other"
             ELSE C30_NamesOf(lookup.score) = {lookup.segment}

\* C30 witness: the score 344, in the list of the first branch only, was
\* looked up and gave 'Champions'.
C30_Witness ==
    /\ pc = "looked"
    /\ lookup.score = 344
    /\ lookup.segment = "Champions"

\* the score 222, in no list, was looked up and gave 'Other'
C30_OtherReached ==
    /\ pc = "looked"
    /\ lookup.score = 222
    /\ lookup.segment = "Other"

====
